---- MODULE Spec2Model ----
(***************************************************************************)
(* Model of src/imdb_scraper.py: the IMDbScraper class with its three      *)
(* operations scrape_top_movies, export_to_csv and scrape_by_genre.        *)
(*                                                                         *)
(* Text is a sequence of one-character strings.  A markup element is a     *)
(* record [name, class, text, kids]; the page is the root element of the   *)
(* parsed document.  An optional value (Python's None or an object) is a   *)
(* sequence of length 0 or 1.                                              *)
(***************************************************************************)
EXTENDS Integers, Sequences, FiniteSets, TLC

VARIABLES
    page,   \* the document the site serves (the body of every response)
    file,   \* the CSV file at the export path: <<>> or <<content>>
    heap,   \* the list objects created by the calls so far, by identity
    made,   \* for each list object: the call that created it
    last    \* the observable trace of the most recent call

vars == <<page, file, heap, made, last>>

----------------------------------------------------------------------------
(* Bounds of the model. *)

MaxPageLen == 2
MaxLimit == 1
MaxCalls == 2

(* The item cap of scrape_by_genre. *)
GenreCap == 50

----------------------------------------------------------------------------
(* Text and the str methods the code uses. *)

NL == "\n"

RECURSIVE LStrip(_, _)
LStrip(t, chars) ==
    IF t # <<>> /\ Head(t) \in chars THEN LStrip(Tail(t), chars) ELSE t

RECURSIVE RStrip(_, _)
RStrip(t, chars) ==
    IF t # <<>> /\ t[Len(t)] \in chars
    THEN RStrip(SubSeq(t, 1, Len(t) - 1), chars)
    ELSE t

(* str.strip(chars): drops every leading and trailing character of chars. *)
Strip(t, chars) == RStrip(LStrip(t, chars), chars)

(* The call .strip('()') of the year field. *)
YearText(t) == Strip(t, {"(", ")"})

LowerChar(c) ==
    CASE c = "A" -> "a"
      [] c = "B" -> "b"
      [] OTHER -> c

RECURSIVE Lower(_)
(* str.lower() *)
Lower(t) ==
    IF t = <<>> THEN <<>> ELSE <<LowerChar(Head(t))>> \o Lower(Tail(t))

----------------------------------------------------------------------------
(* Markup elements and the BeautifulSoup queries. *)

El(name, class, text, kids) ==
    [name |-> name, class |-> class, text |-> text, kids |-> kids]

RECURSIVE Descendants(_)
RECURSIVE DescendantsOfRange(_, _, _)
(* Every element below el, in document order. *)
Descendants(el) == DescendantsOfRange(el.kids, 1, Len(el.kids))

(* els[lo..hi], each element followed by its own descendants. The range is
   taken by halves, which keeps the evaluation shallow on a long page. *)
DescendantsOfRange(els, lo, hi) ==
    IF lo > hi THEN <<>>
    ELSE IF lo = hi THEN <<els[lo]>> \o Descendants(els[lo])
    ELSE LET mid == (lo + hi) \div 2
         IN  DescendantsOfRange(els, lo, mid)
                 \o DescendantsOfRange(els, mid + 1, hi)

(* class_=...: one token matches any class of the element, several tokens
   match the whole class attribute; <<>> is no class filter. *)
ClassMatch(have, want) ==
    \/ want = <<>>
    \/ Len(want) = 1 /\ \E i \in 1..Len(have) : have[i] = want[1]
    \/ Len(want) > 1 /\ have = want

Matches(el, name, class) == el.name = name /\ ClassMatch(el.class, class)

Matching(el, name, class) ==
    SelectSeq(Descendants(el), LAMBDA d : Matches(d, name, class))

(* Tag.find: the first matching descendant, or None. *)
Find(el, name, class) ==
    LET m == Matching(el, name, class)
    IN  IF m = <<>> THEN <<>> ELSE <<Head(m)>>

(* Tag.find_all(..., limit=limit): a limit of 0 is no limit. *)
FindAll(el, name, class, limit) ==
    LET m == Matching(el, name, class)
    IN  IF limit = 0 \/ Len(m) <= limit THEN m ELSE SubSeq(m, 1, limit)

----------------------------------------------------------------------------
(* The pages the site may serve: the rows of the top chart, the items of a
   genre search, and other markup, in any mix. *)

Leaf(name, text) == El(name, <<>>, text, <<>>)

TitleTd(kids) == El("td", <<"titleColumn">>, <<>>, kids)

RatingTd(kids) == El("td", <<"ratingColumn", "imdbRating">>, <<>>, kids)

Tr(kids) == El("tr", <<>>, <<>>, kids)

Header(kids) == El("h3", <<"lister-item-header">>, <<>>, kids)

RatingsBar(kids) == El("div", <<"ratings-bar">>, <<>>, kids)

ListerItem(kids) == El("div", <<"lister-item", "mode-advanced">>, <<>>, kids)

TrGood ==
    Tr(<<TitleTd(<<Leaf("a", <<"a">>), Leaf("span", <<"(", "1", ")">>)>>),
         RatingTd(<<Leaf("strong", <<"9">>)>>)>>)

(* Text with surrounding whitespace and with unbalanced parentheses. *)
TrDirty ==
    Tr(<<TitleTd(<<Leaf("a", <<NL, "b">>),
                   Leaf("span", <<"(", "(", "2", ")", NL>>)>>),
         RatingTd(<<Leaf("strong", <<"8", " ">>)>>)>>)

(* Elements that exist and hold no text, and a year of parentheses only. *)
TrEmpty ==
    Tr(<<TitleTd(<<Leaf("a", <<>>), Leaf("span", <<"(", ")">>)>>),
         RatingTd(<<Leaf("strong", <<>>)>>)>>)

TrNoStrong ==
    Tr(<<TitleTd(<<Leaf("a", <<"c">>), Leaf("span", <<"(", "3", ")">>)>>),
         RatingTd(<<>>)>>)

TrNoRatingTd ==
    Tr(<<TitleTd(<<Leaf("a", <<"d">>), Leaf("span", <<"(", "4", ")">>)>>)>>)

TrNoTitleTd == Tr(<<RatingTd(<<Leaf("strong", <<"7">>)>>)>>)

TrNoAnchor ==
    Tr(<<TitleTd(<<Leaf("span", <<"(", "5", ")">>)>>),
         RatingTd(<<Leaf("strong", <<"6">>)>>)>>)

TrNoSpan ==
    Tr(<<TitleTd(<<Leaf("a", <<"e">>)>>),
         RatingTd(<<Leaf("strong", <<"5">>)>>)>>)

LiGood ==
    ListerItem(<<Header(<<Leaf("a", <<"f">>)>>),
                 RatingsBar(<<Leaf("strong", <<"4">>)>>)>>)

LiDirty ==
    ListerItem(<<Header(<<Leaf("a", <<NL, "g", NL>>)>>),
                 RatingsBar(<<Leaf("strong", <<>>)>>)>>)

LiNoHeader == ListerItem(<<RatingsBar(<<Leaf("strong", <<"3">>)>>)>>)

LiNoBar == ListerItem(<<Header(<<Leaf("a", <<"h">>)>>)>>)

LiNoAnchor ==
    ListerItem(<<Header(<<>>), RatingsBar(<<Leaf("strong", <<"2">>)>>)>>)

LiNoStrong ==
    ListerItem(<<Header(<<Leaf("a", <<"i">>)>>), RatingsBar(<<>>)>>)

Paragraph == El("p", <<>>, <<"x">>, <<>>)

TrKinds ==
    {TrGood, TrDirty, TrEmpty, TrNoStrong, TrNoRatingTd, TrNoTitleTd,
     TrNoAnchor, TrNoSpan}

LiKinds == {LiGood, LiDirty, LiNoHeader, LiNoBar, LiNoAnchor, LiNoStrong}

NodeKinds == TrKinds \cup LiKinds \cup {Paragraph}

GoodKinds == {TrGood, LiGood}

(* A page body repeats a short pattern of nodes. *)
Patterns ==
    {<<k>> : k \in NodeKinds}
        \cup {<<k, g>> : k \in NodeKinds, g \in GoodKinds}
        \cup {<<g, k>> : g \in GoodKinds, k \in NodeKinds}

LongPatterns == {<<LiGood>>, <<LiGood, LiNoBar>>}

RECURSIVE CycleRange(_, _, _)
(* Items lo..hi of the body that repeats pat. *)
CycleRange(pat, lo, hi) ==
    IF lo > hi THEN <<>>
    ELSE IF lo = hi THEN <<pat[((lo - 1) % Len(pat)) + 1]>>
    ELSE LET mid == (lo + hi) \div 2
         IN  CycleRange(pat, lo, mid) \o CycleRange(pat, mid + 1, hi)

Cycle(pat, n) == CycleRange(pat, 1, n)

Document(items) == El("[document]", <<>>, <<>>, items)

Pages ==
    {Document(Cycle(pat, n)) : pat \in Patterns, n \in 0..MaxPageLen}
        \cup {Document(Cycle(pat, GenreCap + 1)) : pat \in LongPatterns}

----------------------------------------------------------------------------
(* What a call leaves behind for an observer: the requests it issued, the
   item nodes it visited with the lookups made on each, and its log records,
   in the order they happened. *)

GetEv(url) == <<"get", url>>

VisitEv(lookups) == <<"visit", lookups>>

LogEv(level, msg, n) == <<"log", level, msg, n>>

(* The environment's part in one scrape call: requests.get returns a
   response, with a 2xx status or with another one, or it raises a
   RequestException (the site is unreachable, the request times out).
   BeautifulSoup's html.parser builds a document from any body. *)
Outcomes == {"ok", "non2xx", "unreachable", "timeout"}

RequestExceptions == {"unreachable", "timeout"}

Obtained(outcome) == outcome \in {"ok", "non2xx"}

Limits == 0..MaxLimit

Genres == {<<"A", "b">>, <<"a", "b">>}

TopUrl == <<"/chart/top250/">>

GenreUrl(genre) == <<"/search/title/", Lower(genre)>>

----------------------------------------------------------------------------
(* scrape_top_movies *)

(* The body of the inner try for one row: each lookup in turn, the first
   None ending the row with an AttributeError. *)
ExtractTop(row) ==
    LET td == Find(row, "td", <<"titleColumn">>)
        a == IF td = <<>> THEN <<>> ELSE Find(td[1], "a", <<>>)
        span == IF td = <<>> THEN <<>> ELSE Find(td[1], "span", <<>>)
        rtd == Find(row, "td", <<"ratingColumn", "imdbRating">>)
        strong == IF rtd = <<>> THEN <<>> ELSE Find(rtd[1], "strong", <<>>)
    IN  IF td = <<>> THEN
            [ok |-> FALSE, lookups |-> <<"td.titleColumn">>]
        ELSE IF a = <<>> THEN
            [ok |-> FALSE, lookups |-> <<"td.titleColumn", "a">>]
        ELSE IF span = <<>> THEN
            [ok |-> FALSE,
             lookups |-> <<"td.titleColumn", "a", "td.titleColumn", "span">>]
        ELSE IF rtd = <<>> THEN
            [ok |-> FALSE,
             lookups |-> <<"td.titleColumn", "a", "td.titleColumn", "span",
                           "td.ratingColumn">>]
        ELSE IF strong = <<>> THEN
            [ok |-> FALSE,
             lookups |-> <<"td.titleColumn", "a", "td.titleColumn", "span",
                           "td.ratingColumn", "strong">>]
        ELSE
            [ok |-> TRUE,
             lookups |-> <<"td.titleColumn", "a", "td.titleColumn", "span",
                           "td.ratingColumn", "strong">>,
             rec |-> [title |-> a[1].text,
                      year |-> YearText(span[1].text),
                      rating |-> strong[1].text]]

RECURSIVE TopLoopRange(_, _, _)
(* The iterations lo..hi of the for loop over the rows: the records
   appended and the events, each row's after those of the rows before it.
   The range is taken by halves. *)
TopLoopRange(rows, lo, hi) ==
    IF lo > hi THEN [movies |-> <<>>, events |-> <<>>]
    ELSE IF lo = hi THEN
        LET x == ExtractTop(rows[lo])
        IN  IF x.ok
            THEN [movies |-> <<x.rec>>, events |-> <<VisitEv(x.lookups)>>]
            ELSE [movies |-> <<>>,
                  events |-> <<VisitEv(x.lookups),
                               LogEv("error", "Error parsing movie", 0)>>]
    ELSE LET mid == (lo + hi) \div 2
             first == TopLoopRange(rows, lo, mid)
             rest == TopLoopRange(rows, mid + 1, hi)
         IN  [movies |-> first.movies \o rest.movies,
              events |-> first.events \o rest.events]

(* The for loop over the rows. *)
TopLoop(rows) == TopLoopRange(rows, 1, Len(rows))

(* A summary that counts the rows visited, not the records kept. *)
TopSummaryOfRows(rows, movies) ==
    LogEv("info", "Successfully scraped", Len(rows))

(* The summary record after the loop: len(movies). *)
TopSummary(rows, movies) == LogEv("info", "Successfully scraped", Len(movies))

(* One list kept across calls, as a class attribute or a mutable default
   argument would be. *)
SharedList == IF heap = <<>> THEN 1 ELSE Len(heap)

(* movies = []: a new list object. *)
NewList == Len(heap) + 1

(* The list object obj after the records of add are appended to it. *)
Appended(obj, add) ==
    IF obj \in DOMAIN heap
    THEN [heap EXCEPT ![obj] = @ \o add]
    ELSE Append(heap, add)

Created(obj, by) ==
    IF obj \in DOMAIN made THEN [made EXCEPT ![obj] = by] ELSE Append(made, by)

(* The trace of one call: ret is the list object returned, 0 when the call
   returns None or raises; raised is the exception that escapes. *)
Call(op, arg, outcome, events, raised, ret) ==
    [n |-> last.n + 1, op |-> op, arg |-> arg, outcome |-> outcome,
     events |-> events, raised |-> raised, ret |-> ret]

ScrapeTopMovies(limit, outcome) ==
    LET movies == NewList
        rows == FindAll(page, "tr", <<>>, limit)
        loop == TopLoop(rows)
        by == [op |-> "top", arg |-> limit, obtained |-> Obtained(outcome)]
    IN  /\ last.n < MaxCalls
        /\ UNCHANGED <<page, file>>
        /\ IF outcome \in RequestExceptions THEN
               /\ heap' = Appended(movies, <<>>)
               /\ made' = Created(movies, by)
               /\ last' = Call("top", limit, outcome,
                               <<GetEv(TopUrl),
                                 LogEv("error", "Request error", 0)>>,
                               "none", movies)
           ELSE
               /\ heap' = Appended(movies, loop.movies)
               /\ made' = Created(movies, by)
               /\ last' = Call("top", limit, outcome,
                               <<GetEv(TopUrl)>> \o loop.events \o
                                   <<TopSummary(rows, heap'[movies])>>,
                               "none", movies)

----------------------------------------------------------------------------
(* scrape_by_genre *)

(* The record built from the lowercased genre, the one the URL holds. *)
ExtractGenreLowered(item, genre) ==
    LET title_div == Find(item, "h3", <<"lister-item-header">>)
        rating_div == Find(item, "div", <<"ratings-bar">>)
        a == IF title_div = <<>> THEN <<>> ELSE Find(title_div[1], "a", <<>>)
        strong == IF rating_div = <<>> THEN <<>>
                  ELSE Find(rating_div[1], "strong", <<>>)
        both == <<"h3.lister-item-header", "div.ratings-bar">>
    IN  IF title_div = <<>> \/ rating_div = <<>> THEN
            [ok |-> FALSE, error |-> FALSE, lookups |-> both]
        ELSE IF a = <<>> THEN
            [ok |-> FALSE, error |-> TRUE, lookups |-> both \o <<"a">>]
        ELSE IF strong = <<>> THEN
            [ok |-> FALSE, error |-> TRUE,
             lookups |-> both \o <<"a", "strong">>]
        ELSE
            [ok |-> TRUE, error |-> FALSE,
             lookups |-> both \o <<"a", "strong">>,
             rec |-> [title |-> a[1].text, genre |-> Lower(genre),
                      rating |-> strong[1].text]]

(* The body of the inner try for one item: both containers are looked up,
   and the sub-lookups are made only when both exist. *)
ExtractGenre(item, genre) ==
    LET title_div == Find(item, "h3", <<"lister-item-header">>)
        rating_div == Find(item, "div", <<"ratings-bar">>)
        a == IF title_div = <<>> THEN <<>> ELSE Find(title_div[1], "a", <<>>)
        strong == IF rating_div = <<>> THEN <<>>
                  ELSE Find(rating_div[1], "strong", <<>>)
        both == <<"h3.lister-item-header", "div.ratings-bar">>
    IN  IF title_div = <<>> \/ rating_div = <<>> THEN
            [ok |-> FALSE, error |-> FALSE, lookups |-> both]
        ELSE IF a = <<>> THEN
            [ok |-> FALSE, error |-> TRUE, lookups |-> both \o <<"a">>]
        ELSE IF strong = <<>> THEN
            [ok |-> FALSE, error |-> TRUE,
             lookups |-> both \o <<"a", "strong">>]
        ELSE
            [ok |-> TRUE, error |-> FALSE,
             lookups |-> both \o <<"a", "strong">>,
             rec |-> [title |-> a[1].text, genre |-> genre,
                      rating |-> strong[1].text]]

RECURSIVE GenreLoopRange(_, _, _, _)
(* The iterations lo..hi of the for loop over the items, as TopLoopRange. *)
GenreLoopRange(items, genre, lo, hi) ==
    IF lo > hi THEN [movies |-> <<>>, events |-> <<>>]
    ELSE IF lo = hi THEN
        LET x == ExtractGenre(items[lo], genre)
        IN  [movies |-> IF x.ok THEN <<x.rec>> ELSE <<>>,
             events |-> <<VisitEv(x.lookups)>>
                        \o (IF x.error
                            THEN <<LogEv("debug", "Parse error", 0)>>
                            ELSE <<>>)]
    ELSE LET mid == (lo + hi) \div 2
             first == GenreLoopRange(items, genre, lo, mid)
             rest == GenreLoopRange(items, genre, mid + 1, hi)
         IN  [movies |-> first.movies \o rest.movies,
              events |-> first.events \o rest.events]

(* The for loop over the items. *)
GenreLoop(items, genre) == GenreLoopRange(items, genre, 1, Len(items))

GenreSummary(items, movies) == LogEv("info", "Scraped", Len(movies))

ScrapeByGenre(genre, outcome) ==
    LET movies == NewList
        items == FindAll(page, "div", <<"lister-item">>, GenreCap)
        loop == GenreLoop(items, genre)
        by == [op |-> "genre", arg |-> genre, obtained |-> Obtained(outcome)]
    IN  /\ last.n < MaxCalls
        /\ UNCHANGED <<page, file>>
        /\ made' = Created(movies, by)
        /\ IF Obtained(outcome) THEN
               /\ heap' = Appended(movies, loop.movies)
               /\ last' = Call("genre", genre, outcome,
                               <<GetEv(GenreUrl(genre))>> \o loop.events \o
                                   <<GenreSummary(items, heap'[movies])>>,
                               "none", movies)
           ELSE
               /\ heap' = Appended(movies, <<>>)
               /\ last' = Call("genre", genre, outcome,
                               <<GetEv(GenreUrl(genre)),
                                 LogEv("error", "Error scraping genre", 0)>>,
                               "none", movies)

----------------------------------------------------------------------------
(* export_to_csv *)

(* The columns in another order. *)
FieldnamesSwapped == <<"title", "rating", "year">>

(* fieldnames of the DictWriter. *)
Fieldnames == <<"title", "year", "rating">>

FieldSet == {Fieldnames[i] : i \in 1..Len(Fieldnames)}

(* DictWriter._dict_to_list with extrasaction='raise': a key that is no
   field name is a ValueError. *)
HasExtraKeys(rec) == DOMAIN rec \ FieldSet # {}

(* rowdict.get(key, restval) with restval ''. *)
FieldValue(rec, key) == IF key \in DOMAIN rec THEN rec[key] ELSE <<>>

RECURSIVE DoubleQuotes(_)
DoubleQuotes(t) ==
    IF t = <<>> THEN <<>>
    ELSE (IF Head(t) = "\"" THEN <<"\"", "\"">> ELSE <<Head(t)>>)
         \o DoubleQuotes(Tail(t))

(* csv.writer with QUOTE_MINIMAL: a field holding the delimiter, the quote
   character or a line break is written in quotes, its quotes doubled. *)
CsvField(t) ==
    IF \E i \in 1..Len(t) : t[i] \in {",", "\"", NL, "\r"}
    THEN <<"\"">> \o DoubleQuotes(t) \o <<"\"">>
    ELSE t

CsvRow(rec) ==
    <<CsvField(FieldValue(rec, Fieldnames[1])),
      CsvField(FieldValue(rec, Fieldnames[2])),
      CsvField(FieldValue(rec, Fieldnames[3]))>>

RECURSIVE CsvRows(_)
(* writerows: one row per record, in the order of the list. *)
CsvRows(movies) ==
    IF movies = <<>> THEN <<>>
    ELSE <<CsvRow(Head(movies))>> \o CsvRows(Tail(movies))

(* The position of the first record writerows rejects, 0 when none. *)
FirstRejected(movies) ==
    LET bad == {i \in 1..Len(movies) : HasExtraKeys(movies[i])}
    IN  IF bad = {} THEN 0 ELSE CHOOSE i \in bad : \A j \in bad : i <= j

(* A file after its first w writes: the header, then one row each. *)
Written(movies, w) ==
    [header |-> IF w >= 1 THEN Fieldnames ELSE <<>>,
     rows |-> IF w >= 2 THEN CsvRows(SubSeq(movies, 1, w - 1)) ELSE <<>>]

(* The environment's part in one export: all goes well, open() raises an
   IOError, or the n-th write does (the header is the first write). *)
IoOutcomes(movies) ==
    IF movies = <<>> THEN {<<"ok">>}
    ELSE {<<"ok">>, <<"open_error">>}
             \cup {<<"write_error", n>> : n \in 1..(Len(movies) + 1)}

ExportToCsv(ref, io) ==
    LET movies == heap[ref]
        k == Len(movies)
        b == FirstRejected(movies)
        failAt == IF io[1] = "write_error" THEN io[2] ELSE k + 2
        rejectAt == IF b = 0 THEN k + 2 ELSE b + 1
        done == IF failAt < rejectAt THEN failAt - 1
                ELSE IF rejectAt <= k + 1 THEN rejectAt - 1
                ELSE k + 1
    IN  /\ last.n < MaxCalls
        /\ io \in IoOutcomes(movies)
        /\ UNCHANGED <<page, heap, made>>
        /\ IF movies = <<>> THEN
               /\ file' = file
               /\ last' = Call("export", ref, io,
                               <<LogEv("warning", "No movies to export", 0)>>,
                               "none", 0)
           ELSE IF io[1] = "open_error" THEN
               /\ file' = file
               /\ last' = Call("export", ref, io,
                               <<LogEv("error", "File write error", 0)>>,
                               "none", 0)
           ELSE
               /\ file' = <<Written(movies, done)>>
               /\ IF failAt < rejectAt THEN
                      last' = Call("export", ref, io,
                                   <<LogEv("error", "File write error", 0)>>,
                                   "none", 0)
                  ELSE IF rejectAt <= k + 1 THEN
                      last' = Call("export", ref, io, <<>>, "ValueError", 0)
                  ELSE
                      last' = Call("export", ref, io,
                                   <<LogEv("info", "Exported", k)>>,
                                   "none", 0)

----------------------------------------------------------------------------
(* The program: a caller that makes up to MaxCalls calls, exporting only
   lists a scrape returned. *)

OldFile ==
    [header |-> Fieldnames, rows |-> <<<<<<"o">>, <<"l">>, <<"d">>>>>>]

NoCall ==
    [n |-> 0, op |-> "none", arg |-> 0, outcome |-> "none", events |-> <<>>,
     raised |-> "none", ret |-> 0]

Init ==
    /\ page \in Pages
    /\ file \in {<<>>, <<OldFile>>}
    /\ heap = <<>>
    /\ made = <<>>
    /\ last = NoCall

Next ==
    \/ \E limit \in Limits, outcome \in Outcomes :
           ScrapeTopMovies(limit, outcome)
    \/ \E genre \in Genres, outcome \in Outcomes :
           ScrapeByGenre(genre, outcome)
    \/ \E ref \in DOMAIN heap :
           \E io \in IoOutcomes(heap[ref]) : ExportToCsv(ref, io)

Spec == Init /\ [][Next]_vars

----------------------------------------------------------------------------
(* What the properties below read off a state. *)

IsScrape == last.op \in {"top", "genre"}

(* The batch the most recent call returned. *)
Batch == heap[last.ret]

Events(kind) == SelectSeq(last.events, LAMBDA e : e[1] = kind)

Logs(level) ==
    SelectSeq(last.events, LAMBDA e : e[1] = "log" /\ e[2] = level)

IsSummary(e) ==
    e[1] = "log" /\ e[2] = "info"
        /\ e[3] \in {"Successfully scraped", "Scraped"}

Summaries == SelectSeq(last.events, IsSummary)

HasClass(el, c) == \E i \in 1..Len(el.class) : el.class[i] = c

FirstN(s, n) == IF Len(s) > n THEN SubSeq(s, 1, n) ELSE s

Whitespace == {NL, " "}

Trimmed(t) ==
    t = <<>> \/ (t[1] \notin Whitespace /\ t[Len(t)] \notin Whitespace)

----------------------------------------------------------------------------
(* C1: scrape_top_movies(limit=N) returns at most N records and
   scrape_by_genre returns at most 50, whatever the page holds. *)
C1_BatchWithinCap ==
    /\ (last.op = "top" /\ last.ret > 0) => Len(Batch) <= last.arg
    /\ (last.op = "genre" /\ last.ret > 0) => Len(Batch) <= GenreCap

(* C2: every record scrape_top_movies returns has a non-empty title, year
   and rating, also when an element exists without text or the year text is
   parentheses only. *)
C2_TopFieldsNonEmpty ==
    (last.op = "top" /\ last.ret > 0) =>
        \A i \in 1..Len(Batch) :
            /\ Batch[i].title # <<>>
            /\ Batch[i].year # <<>>
            /\ Batch[i].rating # <<>>

(* C3: when the fetch is a transport failure (unreachable, timeout or a
   non-2xx status) the scrape logs an error, visits no item node and
   returns an empty list without raising. *)
C3_TransportFailureYieldsEmpty ==
    (IsScrape /\ last.outcome \in {"unreachable", "timeout", "non2xx"}) =>
        /\ Logs("error") # <<>>
        /\ Events("visit") = <<>>
        /\ last.raised = "none"
        /\ last.ret > 0
        /\ Batch = <<>>

(* C4: no exception escapes any of the three operations, and both scrapes
   return a list; this includes export_to_csv on a batch of genre
   records. *)
C4_NoExceptionEscapes ==
    /\ last.raised = "none"
    /\ IsScrape => last.ret > 0

----------------------------------------------------------------------------
(* The export, seen as a step. *)

ExportStep == last'.n = last.n + 1 /\ last'.op = "export"

TopChartBatch(movies) ==
    /\ movies # <<>>
    /\ \A i \in 1..Len(movies) : DOMAIN movies[i] = {"title", "year", "rating"}

RECURSIVE LineBreaks(_)
LineBreaks(t) ==
    IF t = <<>> THEN 0
    ELSE (IF Head(t) = NL THEN 1 ELSE 0) + LineBreaks(Tail(t))

RECURSIVE RowLines(_)
(* The lines the rows take in the file: each row ends one line, and a line
   break inside a quoted field starts another. *)
RowLines(rows) ==
    IF rows = <<>> THEN 0
    ELSE 1 + LineBreaks(Head(rows)[1]) + LineBreaks(Head(rows)[2])
           + LineBreaks(Head(rows)[3]) + RowLines(Tail(rows))

Lines(content) ==
    (IF content.header = <<>> THEN 0 ELSE 1) + RowLines(content.rows)

(* The file holds the header and one row per record, in batch order, the
   fields in the order title, year, rating. *)
HoldsBatch(content, movies) ==
    /\ content.header = <<"title", "year", "rating">>
    /\ Len(content.rows) = Len(movies)
    /\ \A i \in 1..Len(movies) :
           content.rows[i] = <<CsvField(movies[i].title),
                               CsvField(movies[i].year),
                               CsvField(movies[i].rating)>>

OnlyWarning(events) ==
    Len(events) = 1 /\ events[1][1] = "log" /\ events[1][2] = "warning"

(* C5, as stated: export_to_csv writes the file if and only if the batch is
   non-empty; for k >= 1 top-chart records the file then holds exactly k+1
   lines, the header and one row per record in batch order and column
   order, replacing earlier content; for an empty batch the file is left as
   it was and only a warning is logged. *)
C5_ExportWritesIffNonEmpty ==
    [][ExportStep =>
          LET movies == heap[last'.arg]
          IN  /\ movies = <<>> =>
                     file' = file /\ OnlyWarning(last'.events)
              /\ TopChartBatch(movies) =>
                     /\ file' # <<>>
                     /\ HoldsBatch(file'[1], movies)
                     /\ Lines(file'[1]) = Len(movies) + 1]_vars

(* C5, amended: for an empty batch the file is left as it was and only a
   warning is logged; when open() fails the file is left as it was; for
   k >= 1 top-chart records written without an I/O error the file holds
   exactly the header and one CSV row per record in batch order and column
   order, replacing earlier content, which is k+1 lines when no field
   holds a line break and more than k+1 otherwise. *)
C5_ExportWritesWhenIoSucceeds ==
    [][ExportStep =>
          LET movies == heap[last'.arg]
              io == last'.outcome[1]
          IN  /\ movies = <<>> =>
                     file' = file /\ OnlyWarning(last'.events)
              /\ (TopChartBatch(movies) /\ io = "open_error") => file' = file
              /\ (TopChartBatch(movies) /\ io = "ok") =>
                     /\ file' # <<>>
                     /\ HoldsBatch(file'[1], movies)
                     /\ Lines(file'[1]) >= Len(movies) + 1
                     /\ (Lines(file'[1]) = Len(movies) + 1) <=>
                            (\A i \in 1..Len(movies) :
                                 /\ LineBreaks(movies[i].title) = 0
                                 /\ LineBreaks(movies[i].year) = 0
                                 /\ LineBreaks(movies[i].rating) = 0)]_vars

(* A batch of two top-chart records, one of them with a line break in its
   title and one in its year, exported without an I/O error. *)
C5_Witness ==
    /\ last.op = "export"
    /\ last.outcome[1] = "ok"
    /\ TopChartBatch(heap[last.arg])
    /\ Len(heap[last.arg]) = 2
    /\ file # <<>>
    /\ HoldsBatch(file[1], heap[last.arg])
    /\ Lines(file[1]) = 5

----------------------------------------------------------------------------
(* The genre search, stated on the document. *)

ListerItems ==
    FirstN(SelectSeq(Descendants(page),
                     LAMBDA d : d.name = "div" /\ HasClass(d, "lister-item")),
           GenreCap)

TitleBoxes(item) ==
    SelectSeq(Descendants(item),
              LAMBDA d : d.name = "h3" /\ HasClass(d, "lister-item-header"))

RatingBoxes(item) ==
    SelectSeq(Descendants(item),
              LAMBDA d : d.name = "div" /\ HasClass(d, "ratings-bar"))

Named(el, name) == SelectSeq(Descendants(el), LAMBDA d : d.name = name)

HasBothBoxes(item) == TitleBoxes(item) # <<>> /\ RatingBoxes(item) # <<>>

GenreComplete(item) ==
    /\ HasBothBoxes(item)
    /\ Named(TitleBoxes(item)[1], "a") # <<>>
    /\ Named(RatingBoxes(item)[1], "strong") # <<>>

(* C6: on any page scrape_by_genre(g) returns, in document order, one
   record {title, genre, rating} for each of the first 50 lister-item nodes
   that has both containers and both sub-elements; genre is g character for
   character, while the URL holds g lowercased; an item lacking a container
   is skipped with no sub-lookup made; no record holds only one of title
   and rating. *)
C6_GenreBatchIsExact ==
    (last.op = "genre" /\ Obtained(last.outcome)) =>
        LET good == SelectSeq(ListerItems, GenreComplete)
            visits == Events("visit")
        IN  /\ last.ret > 0
            /\ Len(Batch) = Len(good)
            /\ \A i \in 1..Len(good) :
                   /\ DOMAIN Batch[i] = {"title", "genre", "rating"}
                   /\ Batch[i].title = Named(TitleBoxes(good[i])[1], "a")[1].text
                   /\ Batch[i].rating =
                          Named(RatingBoxes(good[i])[1], "strong")[1].text
                   /\ Batch[i].genre = last.arg
            /\ Len(visits) = Len(ListerItems)
            /\ \A i \in 1..Len(ListerItems) :
                   ~HasBothBoxes(ListerItems[i]) =>
                       visits[i][2] =
                           <<"h3.lister-item-header", "div.ratings-bar">>
            /\ Events("get") = <<GetEv(<<"/search/title/", Lower(last.arg)>>)>>
            /\ \A i \in 1..Len(last.arg) : Lower(last.arg)[i] \notin {"A", "B"}

(* A page of 51 lister items, every second one without its rating
   container, searched with a genre that has a capital: 50 items visited,
   25 records. *)
C6_Witness ==
    /\ last.op = "genre"
    /\ Obtained(last.outcome)
    /\ last.arg = <<"A", "b">>
    /\ Len(Events("visit")) = GenreCap
    /\ Len(Batch) = 25
    /\ Batch[1].genre = <<"A", "b">>
    /\ Len(Descendants(page)) > 100

----------------------------------------------------------------------------
(* Two list objects made by the same operation with the same arguments,
   both from the page. *)
SameCall(x, y) ==
    x.op = y.op /\ x.arg = y.arg /\ x.obtained /\ y.obtained

(* C7: calls keep no state: two calls of the same operation with the same
   arguments that both get the page return equal batches, whatever calls
   came before, and no call changes a list an earlier call returned. *)
C7_CallsShareNoState ==
    [][/\ \A i \in DOMAIN heap : i \in DOMAIN heap' /\ heap'[i] = heap[i]
       /\ \A i \in DOMAIN heap' : \A j \in DOMAIN heap' :
              SameCall(made'[i], made'[j]) => heap'[i] = heap'[j]]_vars

(* Two calls with the same arguments returned the same two records as two
   lists. *)
C7_Witness ==
    /\ Len(heap) = 2
    /\ SameCall(made[1], made[2])
    /\ Len(heap[1]) = 2
    /\ heap[1] = heap[2]

----------------------------------------------------------------------------
(* The top chart, stated on the document. *)

RowComplete(row) ==
    LET tds == SelectSeq(Descendants(row),
                         LAMBDA d : d.name = "td" /\ HasClass(d, "titleColumn"))
        rds == SelectSeq(Descendants(row),
                         LAMBDA d : d.name = "td"
                                    /\ d.class = <<"ratingColumn", "imdbRating">>)
    IN  /\ tds # <<>>
        /\ rds # <<>>
        /\ Named(tds[1], "a") # <<>>
        /\ Named(tds[1], "span") # <<>>
        /\ Named(rds[1], "strong") # <<>>

(* C8: scrape_top_movies returns exactly one record for each of the first
   `limit` tr rows that has the anchor, the span and the strong element, in
   document order; a row lacking one contributes nothing and stops
   nothing. *)
C8_TopBatchIsSubsequence ==
    (last.op = "top" /\ Obtained(last.outcome)) =>
        LET rows == FirstN(Named(page, "tr"), last.arg)
            good == SelectSeq(rows, RowComplete)
        IN  /\ last.ret > 0
            /\ Len(Batch) = Len(good)
            /\ \A i \in 1..Len(good) :
                   Batch[i].title = Named(good[i], "a")[1].text

(* C9: every stored field is the element's text with surrounding
   whitespace trimmed, the year also without its parentheses: title, year
   and rating never start or end with whitespace. *)
C9_FieldsAreTrimmed ==
    (IsScrape /\ last.ret > 0) =>
        \A i \in 1..Len(Batch) :
            /\ Trimmed(Batch[i].title)
            /\ Trimmed(Batch[i].rating)
            /\ last.op = "top" => Trimmed(Batch[i].year)

(* C10: a scrape issues exactly one GET, first of all; when requests.get
   returns a response there is exactly one summary record, after every
   visit and last before the return, and its count is the length of the
   returned batch; when requests.get raises, an error is logged and there
   is no summary. *)
C10_OneGetOneSummary ==
    IsScrape =>
        LET ev == last.events
        IN  /\ Len(Events("get")) = 1
            /\ ev[1][1] = "get"
            /\ last.raised = "none"
            /\ last.ret > 0
            /\ IF Obtained(last.outcome)
               THEN /\ Len(Summaries) = 1
                    /\ IsSummary(ev[Len(ev)])
                    /\ ev[Len(ev)][4] = Len(Batch)
                    /\ \A i \in 1..Len(ev) : ev[i][1] = "visit" => i < Len(ev)
                    /\ Len(Events("visit")) >=
                           (IF last.op = "genre" THEN Len(ListerItems)
                            ELSE Len(FirstN(Named(page, "tr"), last.arg)))
               ELSE /\ Logs("error") # <<>>
                    /\ Summaries = <<>>
                    /\ Batch = <<>>

(* A scrape of the top chart that visited two rows, skipped one of them
   with an error record and reported one record. *)
C10_Witness ==
    /\ last.op = "top"
    /\ Obtained(last.outcome)
    /\ Len(Events("visit")) = 2
    /\ Len(Logs("error")) = 1
    /\ Len(Batch) = 1
    /\ last.events[Len(last.events)][4] = 1

====
